---------------------------- MODULE Spec2Model ----------------------------
(***************************************************************************)
(* A model of the Immich slideshow toolkit: the three commands             *)
(*   immich-video-gen       (src/audio-config-gen.ts lines 141-703),       *)
(*   audio-config-gen       (src/audio-config-gen.ts lines 1-140),         *)
(*   video-and-audio-merge  (src/unnamed/part_001).                        *)
(*                                                                         *)
(* Each command is a process that runs from its first statement to its     *)
(* exit.  External tools (ffmpeg, ffprobe, the Immich server, the file     *)
(* system) answer nondeterministically from small sets.                    *)
(*                                                                         *)
(* Conventions:                                                            *)
(*  - a path is a triple <<dir, kind, num>> standing for the file          *)
(*    dir/kind_num.ext, with the extension fixed by the kind (Ext);        *)
(*  - times are exact multiples of a tick; Eps ticks are 0.0001 s and      *)
(*    Second ticks are 1 s (floating-point rounding is not modelled);      *)
(*  - exitCode is Running while the process lives, else its exit status.   *)
(***************************************************************************)
EXTENDS Integers, Sequences, FiniteSets, TLC

\* ---------------------------------------------------------------- bounds
\* Small folders hold 0..MaxFew images.
MaxFew == 3
\* Large folders hold k*batchSize-1 .. k*batchSize+1 images, k < MaxBatches.
MaxBatches == 3
\* An album or a photo config lists at most MaxAssets assets.
MaxAssets == 3
\* A playlist lists at most MaxEntries locations.
MaxEntries == 2
\* A merge config holds at most MaxTracks tracks.
MaxTracks == 3
\* Track times of a merge config are 0..MaxTime ticks.
MaxTime == 2
\* The resolution of time: ticks per 0.0001 s.
TicksPerEps == 1

\* ------------------------------------------------------ program constants
\* createSlideshowAsync: const batchSize = 100
batchSize == 100
\* commander's program.help() prints the help text and ends the process
\* itself, with status process.exitCode || 0; the process.exit(1) written
\* after it is never reached.
HelpExitCode == 0

\* exitCode of a process that has not ended
Running == 0 - 1

\* 0.0001 (s), the tolerance of the merge checks, in ticks
Eps == TicksPerEps
\* 1 s in ticks
Second == 10000 * TicksPerEps

Min(a, b) == IF a < b THEN a ELSE b

\* ------------------------------------------------------------ file names
OutDir == "out"      \* --outputDir
InDir == "in"        \* --inputDir, when it is another folder
VidDir == "vid"      \* dirname(--video), when it is another folder
MediaDir == "media"  \* where the user's --title / --ending videos live

\* The extension of a file of each kind.
Ext(kind) ==
  CASE kind = "image" -> ".jpg"
    [] kind = "photo" -> ".jpg"
    [] kind = "pic" -> ".png"
    [] kind = "batch" -> ".mp4"
    [] kind = "video" -> ".mp4"
    [] kind = "title" -> ".mp4"
    [] kind = "ending" -> ".mp4"
    [] OTHER -> ".txt"

\* supportedExtensions = ['.jpg', '.jpeg', '.png']
supportedExtensions == {".jpg", ".jpeg", ".png"}

\* An upper bound of the numbers in the file names of the model.
MaxNum == MaxBatches * batchSize + MaxAssets + 1

\* The files of one kind of a folder, by ascending number.
KindSorted(fileSet, dir, kind) ==
  SelectSeq([k \in 1..MaxNum |-> <<dir, kind, k>>], LAMBDA p : p \in fileSet)

\* The name prefixes in the order of
\* a.localeCompare(b, undefined, {numeric: true, sensitivity: 'base'});
\* names of one prefix go by their number, as a number.
KindsByRank == <<"batch", "image", "photo", "pic", "video">>

RECURSIVE SortedFrom(_, _, _)
SortedFrom(fileSet, dir, r) ==
  IF r > Len(KindsByRank) THEN <<>>
  ELSE (IF Ext(KindsByRank[r]) \in supportedExtensions
          THEN KindSorted(fileSet, dir, KindsByRank[r]) ELSE <<>>)
       \o SortedFrom(fileSet, dir, r + 1)

\* readdirSync(imageDir).filter(supported extension).sort(numeric).map(join)
SortedImages(fileSet, dir) == SortedFrom(fileSet, dir, 1)

\* A batch video that an earlier run left in the output folder.
LeftoverBatch == <<OutDir, "batch", MaxBatches + 1>>

TitlePath == <<MediaDir, "title", 0>>
EndingPath == <<MediaDir, "ending", 0>>

\* Before ffmpeg is spawned there is no command.
NoCommand == [inputs |-> <<>>, filterComplex |-> <<>>, map |-> <<>>]

\* --------------------------------------------------------------- state
VARIABLES
  opts,             \* immich-video-gen: the parsed command line
  photoConfigFile,  \* whether the --photoConfig file exists
  dirs,             \* the folders that exist
  disk,             \* the files that exist (paths)
  frames,           \* what each video file shows: a sequence of sources
  pc,               \* the position of the running command
  exitCode,         \* Running, or the exit status of the process
  stderr,           \* the kinds of messages written by console.error
  stdout,           \* the kinds of messages written by console.log
  thrown,           \* the error on its way to the catch block ("" if none)
  queue,            \* the asset ids to download, in download order
  dlKind,           \* the name prefix of downloaded files (image / photo)
  dlIndex,          \* index (0-based) of the download in hand
  downloading,      \* the HTTP downloads in progress (indices)
  encoding,         \* the ffmpeg subprocesses in progress (output paths)
  images,           \* createSlideshowAsync: the sorted image paths
  i,                \* createSlideshowAsync: the batch loop counter
  batchImages,      \* createSlideshowAsync: the batch in hand
  batchVideoFiles,  \* createSlideshowAsync: the videos to put together
  spawned,          \* every call of createPartialVideoAsync so far
  concatList,       \* the entries of the concat list file
  cwd,              \* the working directory of the command
  audioFiles,       \* the audio files on disk: <<dir, name>> -> duration
  audioOpts,        \* audio-config-gen: the parsed command line
  playlist,         \* the --xspf-file: whether it exists, its locations
  files,            \* audio-config-gen: the files to put in the plan
  currentStart,     \* audio-config-gen: where the next track starts
  config,           \* audio-config-gen: the plan built so far
  probed,           \* the files ffprobe was asked about: <<dir, name>>
  output,           \* the JSON written by audio-config-gen (<<>> if none)
  mergeOpts,        \* video-and-audio-merge: options and what exists
  audioConfigs,     \* video-and-audio-merge: the parsed config
  trackIdx,         \* video-and-audio-merge: forEach index (0-based)
  warnings,         \* video-and-audio-merge: the console.warn messages
  videoDuration,    \* video-and-audio-merge: what ffprobe said of the video
  ffmpegCmd         \* video-and-audio-merge: the ffmpeg command spawned

vgVars == <<opts, photoConfigFile, dirs, disk, frames, pc, exitCode, stderr,
            stdout, thrown, queue, dlKind, dlIndex, downloading, encoding,
            images, i, batchImages, batchVideoFiles, spawned, concatList>>

audioVars == <<cwd, audioFiles, audioOpts, playlist, files, currentStart,
               config, probed, output, mergeOpts, audioConfigs, trackIdx,
               warnings, videoDuration, ffmpegCmd>>

vars == <<vgVars, audioVars>>

\* The variables of the audio commands while immich-video-gen runs.
AudioIdle ==
  /\ cwd = ""
  /\ audioFiles = <<>>
  /\ audioOpts = [audioDir |-> FALSE, xspfFile |-> FALSE,
                  fadeIn |-> 0, fadeOut |-> 0]
  /\ playlist = [exists |-> FALSE, locations |-> <<>>]
  /\ files = <<>>
  /\ currentStart = 0
  /\ config = <<>>
  /\ probed = <<>>
  /\ output = <<>>
  /\ mergeOpts = [videoFile |-> FALSE, configFile |-> FALSE,
                  videoExists |-> FALSE, configExists |-> FALSE,
                  videoLength |-> 0]
  /\ audioConfigs = <<>>
  /\ trackIdx = 0
  /\ warnings = {}
  /\ videoDuration = 0
  /\ ffmpegCmd = NoCommand

\* --------------------------------------------------- immich-video-gen
OutputFile == <<opts.videoDir, "video", 0>>

\* The folders large enough to need several batches.
LargeCounts ==
  {k * batchSize + d : k \in 1..(MaxBatches - 1), d \in {-1, 0, 1}}

\* createSlideshowAsync(..., 30, ...): fps
fps == 30

\* parseFloat of --photoDuration and --fadeDuration: the defaults "5" and "1"
DefaultDurations == <<5 * Second, Second>>

\* The <<photoDuration, fadeDuration>> pairs of the model: the defaults,
\* no fade, 1.5 s with 0.5 s, and a fade as long as the photo
DurationChoices ==
  {DefaultDurations, <<5 * Second, 0>>,
   <<(3 * Second) \div 2, Second \div 2>>, <<Second, Second>>}

\* Large folders, other durations than the defaults and a batch video left
\* by an earlier run are explored for the plain local-folder run only.
PlainLocalRun(o) ==
  /\ o.inputDir = OutDir
  /\ ~o.url /\ ~o.album /\ ~o.token /\ ~o.photoConfig

VGInit ==
  /\ opts \in [url : BOOLEAN, album : BOOLEAN, token : BOOLEAN,
               photoConfig : BOOLEAN, inputDir : {"", InDir, OutDir},
               title : BOOLEAN, ending : BOOLEAN,
               videoDir : {OutDir, VidDir},
               photoDuration : {d[1] : d \in DurationChoices},
               fadeDuration : {d[2] : d \in DurationChoices}]
  /\ <<opts.photoDuration, opts.fadeDuration>> \in DurationChoices
  /\ ~PlainLocalRun(opts)
       => <<opts.photoDuration, opts.fadeDuration>> = DefaultDurations
  /\ photoConfigFile \in (IF opts.photoConfig THEN BOOLEAN ELSE {FALSE})
  /\ \E outExists \in BOOLEAN, inExists \in BOOLEAN,
        nOut \in (0..MaxFew) \cup LargeCounts, nIn \in 0..MaxFew,
        titleExists \in BOOLEAN, endingExists \in BOOLEAN,
        leftover \in BOOLEAN :
       /\ ~outExists => nOut = 0
       /\ leftover => PlainLocalRun(opts) /\ outExists
       /\ nOut > MaxFew => PlainLocalRun(opts) /\ opts.videoDir = OutDir
       /\ (opts.inputDir # InDir) => ~inExists
       /\ ~inExists => nIn = 0
       /\ ~opts.title => ~titleExists
       /\ ~opts.ending => ~endingExists
       /\ dirs = {VidDir, MediaDir}
                 \cup (IF outExists THEN {OutDir} ELSE {})
                 \cup (IF inExists THEN {InDir} ELSE {})
       /\ disk = {<<OutDir, "image", k>> : k \in 1..nOut}
                  \cup {<<InDir, "pic", k>> : k \in 1..nIn}
                  \cup (IF titleExists THEN {TitlePath} ELSE {})
                  \cup (IF endingExists THEN {EndingPath} ELSE {})
                  \cup (IF leftover THEN {LeftoverBatch} ELSE {})
       /\ frames = [p \in (IF titleExists THEN {TitlePath} ELSE {})
                          \cup (IF endingExists THEN {EndingPath} ELSE {})
                    |-> <<p>>]
  /\ pc = "checkRequired"
  /\ exitCode = Running
  /\ stderr = {}
  /\ stdout = {}
  /\ thrown = ""
  /\ queue = <<>>
  /\ dlKind = ""
  /\ dlIndex = 0
  /\ downloading = {}
  /\ encoding = {}
  /\ images = <<>>
  /\ i = 0
  /\ batchImages = <<>>
  /\ batchVideoFiles = <<>>
  /\ spawned = <<>>
  /\ concatList = <<>>
  /\ AudioIdle

\* process.exit(code)
Exit(code) ==
  /\ pc' = "exited"
  /\ exitCode' = code

\* Mutant of Throw: the error is swallowed and the run goes on to its end.
ThrowSwallowed(msg) ==
  /\ pc' = "finish"
  /\ thrown' = msg

\* throw new Error(msg) inside the try block
Throw(msg) ==
  /\ pc' = "catch"
  /\ thrown' = msg

\* The condition of the first if: none of the three ways to name a source.
MissingRequired(o) ==
  /\ (~o.url \/ ~o.album \/ ~o.token)
  /\ o.inputDir = ""
  /\ (~o.url \/ ~o.photoConfig \/ ~o.token)

\* The message printed before the help text.
MissingMessage(o) ==
  IF o.photoConfig /\ (~o.url \/ ~o.token) THEN {"missing --url, --token"}
  ELSE IF ~o.url \/ ~o.album \/ ~o.token
         THEN {"missing --url, --album, --token"}
  ELSE IF o.inputDir = "" THEN {"missing --inputDir"}
  ELSE {}

\* if (no source named) { console.error(...); program.help(); process.exit(1) }
CheckRequired ==
  /\ pc = "checkRequired"
  /\ IF MissingRequired(opts)
       THEN /\ stderr' = stderr \cup MissingMessage(opts)
            /\ Exit(HelpExitCode)
       ELSE /\ pc' = "checkTitle"
            /\ UNCHANGED <<stderr, exitCode>>
  /\ UNCHANGED <<opts, photoConfigFile, dirs, disk, frames, stdout, thrown,
                 queue, dlKind, dlIndex, downloading, encoding, images, i,
                 batchImages, batchVideoFiles, spawned, concatList>>
  /\ UNCHANGED audioVars

\* if (options.title) { if (!existsSync) { console.error; process.exit(1) } }
CheckTitle ==
  /\ pc = "checkTitle"
  /\ IF opts.title /\ TitlePath \notin disk
       THEN /\ stderr' = stderr \cup {"title video not found"}
            /\ Exit(1)
            /\ UNCHANGED stdout
       ELSE /\ pc' = "checkEnding"
            /\ stdout' = IF opts.title THEN stdout \cup {"found title video"}
                         ELSE stdout
            /\ UNCHANGED <<stderr, exitCode>>
  /\ UNCHANGED <<opts, photoConfigFile, dirs, disk, frames, thrown,
                 queue, dlKind, dlIndex, downloading, encoding, images, i,
                 batchImages, batchVideoFiles, spawned, concatList>>
  /\ UNCHANGED audioVars

\* if (options.ending) { if (!existsSync) { console.error; process.exit(1) } }
CheckEnding ==
  /\ pc = "checkEnding"
  /\ IF opts.ending /\ EndingPath \notin disk
       THEN /\ stderr' = stderr \cup {"ending video not found"}
            /\ Exit(1)
            /\ UNCHANGED stdout
       ELSE /\ pc' = "checkPhotoConfig"
            /\ stdout' = IF opts.ending
                           THEN stdout \cup {"found ending video"}
                           ELSE stdout
            /\ UNCHANGED <<stderr, exitCode>>
  /\ UNCHANGED <<opts, photoConfigFile, dirs, disk, frames, thrown,
                 queue, dlKind, dlIndex, downloading, encoding, images, i,
                 batchImages, batchVideoFiles, spawned, concatList>>
  /\ UNCHANGED audioVars

\* The message of the failing check of the photoConfig block, "" if none.
PhotoConfigProblem(o, exists) ==
  IF ~o.photoConfig THEN ""
  ELSE IF ~exists THEN "photo config does not exist"
  ELSE IF o.inputDir # "" THEN "inputDir combined with photo config"
  ELSE IF o.album THEN "album combined with photo config"
  ELSE ""

\* if (options.photoConfig) { three checks, each console.error; exit(1) }
CheckPhotoConfig ==
  /\ pc = "checkPhotoConfig"
  /\ IF PhotoConfigProblem(opts, photoConfigFile) # ""
       THEN /\ stderr' = stderr \cup {PhotoConfigProblem(opts, photoConfigFile)}
            /\ Exit(1)
       ELSE /\ pc' = "selectSource"
            /\ UNCHANGED <<stderr, exitCode>>
  /\ UNCHANGED <<opts, photoConfigFile, dirs, disk, frames, stdout, thrown,
                 queue, dlKind, dlIndex, downloading, encoding, images, i,
                 batchImages, batchVideoFiles, spawned, concatList>>
  /\ UNCHANGED audioVars


\* What the --photoConfig file can hold: something that is no array, an
\* empty array, or a list of 1..MaxAssets photo ids.
PhotoConfigContents ==
  {[isArray |-> FALSE, ids |-> <<>>]}
    \cup {[isArray |-> TRUE, ids |-> [k \in 1..n |-> k]] : n \in 0..MaxAssets}

\* try { if (inputDir) {...} else if (photoConfig) {...} else {...}
SelectSource ==
  /\ pc = "selectSource"
  /\ IF opts.inputDir # ""
       THEN \* local folder: only its existence is checked
            /\ stdout' = stdout \cup {"using input directory"}
            /\ IF opts.inputDir \notin dirs
                 THEN Throw("input directory does not exist")
                 ELSE pc' = "readImages" /\ UNCHANGED thrown
            /\ UNCHANGED <<stderr, exitCode, queue, dlKind>>
       ELSE IF opts.photoConfig
       THEN \* photo config: JSON.parse throws, or the list is checked
            /\ stdout' = stdout \cup {"using photo config"}
            /\ \/ /\ Throw("photo config is not JSON")
                  /\ UNCHANGED <<stderr, exitCode, queue, dlKind>>
               \/ \E c \in PhotoConfigContents :
                    IF ~c.isArray \/ Len(c.ids) = 0
                      THEN /\ stderr' = stderr \cup {"invalid photo config"}
                           /\ Exit(1)
                           /\ UNCHANGED <<thrown, queue, dlKind>>
                      ELSE /\ queue' = c.ids
                           /\ dlKind' = "photo"
                           /\ pc' = "download"
                           /\ UNCHANGED <<stderr, exitCode, thrown>>
       ELSE \* album: GET /albums/{id} is sent
            /\ stdout' = stdout \cup {"fetching album"}
            /\ pc' = "albumRequest"
            /\ UNCHANGED <<stderr, exitCode, thrown, queue, dlKind>>
  /\ UNCHANGED <<opts, photoConfigFile, dirs, disk, frames, dlIndex,
                 downloading, encoding, images, i, batchImages,
                 batchVideoFiles, spawned, concatList>>
  /\ UNCHANGED audioVars

\* The answers of GET /albums/{id}: assets 1..n, each an IMAGE or a VIDEO.
AlbumAssets ==
  UNION {[1..n -> {"IMAGE", "VIDEO"}] : n \in 0..MaxAssets}

Reverse(s) == [k \in 1..Len(s) |-> s[Len(s) + 1 - k]]

\* assets.filter(type === "IMAGE"), reversed when order === "asc": the ids
AlbumQueue(types, order) ==
  LET ids == SelectSeq([k \in 1..Len(types) |-> k],
                       LAMBDA k : types[k] = "IMAGE")
  IN IF order = "asc" THEN Reverse(ids) ELSE ids

\* fetchAlbumAsync, from the answer of the album request to the first download
AlbumResponse ==
  /\ pc = "albumRequest"
  /\ \/ /\ Throw("album request failed")
        /\ UNCHANGED <<dirs, queue, dlKind>>
     \/ \E types \in AlbumAssets, order \in {"asc", "desc"} :
          IF Len(types) = 0
            THEN /\ Throw("no assets found in the album")
                 /\ UNCHANGED <<dirs, queue, dlKind>>
            ELSE /\ queue' = AlbumQueue(types, order)
                 /\ dlKind' = "image"
                 /\ dirs' = dirs \cup {OutDir}
                 /\ pc' = IF Len(queue') = 0 THEN "readImages" ELSE "download"
                 /\ UNCHANGED thrown
  /\ UNCHANGED <<opts, photoConfigFile, disk, frames, exitCode, stderr,
                 stdout, dlIndex, downloading, encoding, images, i,
                 batchImages, batchVideoFiles, spawned, concatList>>
  /\ UNCHANGED audioVars

\* path.join(outputDir, `${dlKind}_${index + 1}.jpg`)
DownloadPath(kind, index) == <<OutDir, kind, index + 1>>

\* downloadImageAsync up to its await: createWriteStream (which creates or
\* truncates the file), axios.get sent.
\* A write stream that cannot open its file emits 'error' before any
\* listener is attached, which ends the process as an uncaught exception.
DownloadStart ==
  /\ pc = "download"
  /\ IF OutDir \notin dirs
       THEN /\ stderr' = stderr \cup {"uncaught write stream error"}
            /\ Exit(1)
            /\ UNCHANGED <<downloading, disk>>
       ELSE /\ downloading' = downloading \cup {dlIndex}
            /\ disk' = disk \cup {DownloadPath(dlKind, dlIndex)}
            /\ pc' = "downloading"
            /\ UNCHANGED <<stderr, exitCode>>
  /\ UNCHANGED <<opts, photoConfigFile, dirs, frames, stdout, thrown,
                 queue, dlKind, dlIndex, encoding, images, i, batchImages,
                 batchVideoFiles, spawned, concatList>>
  /\ UNCHANGED audioVars

\* Mutant of StillDownloading: the promise settles when the response
\* arrives, while the file is still being written.
StillDownloadingSettledEarly(inFlight, index) == inFlight

\* The downloads in progress once the promise of download `index` settles:
\* it settles on the writer's 'finish' (or on an error), not before
StillDownloading(inFlight, index) == inFlight \ {index}

\* The position after download `index` of `n` has finished.
AfterDownload(index, n) == IF index + 1 < n THEN "download" ELSE "readImages"

\* writer 'finish': the file is written; the loop goes to the next asset
DownloadFinish ==
  /\ pc = "downloading"
  /\ downloading' = StillDownloading(downloading, dlIndex)
  /\ dlIndex' = dlIndex + 1
  /\ pc' = AfterDownload(dlIndex, Len(queue))
  /\ UNCHANGED <<opts, photoConfigFile, dirs, disk, frames, exitCode, stderr,
                 stdout, thrown, queue, dlKind, encoding, images, i,
                 batchImages, batchVideoFiles, spawned, concatList>>
  /\ UNCHANGED audioVars

\* axios.get rejects, or writer 'error': the promise rejects
DownloadFail ==
  /\ pc = "downloading"
  /\ downloading' = StillDownloading(downloading, dlIndex)
  /\ Throw("download failed")
  /\ UNCHANGED <<opts, photoConfigFile, dirs, disk, frames, exitCode, stderr,
                 stdout, queue, dlKind, dlIndex, encoding, images, i,
                 batchImages, batchVideoFiles, spawned, concatList>>
  /\ UNCHANGED audioVars

\* createSlideshowAsync is called with options.outputDir as imageDir
SlideshowImageDir(o) == OutDir

\* createSlideshowAsync up to the batch loop
ReadImages ==
  /\ pc = "readImages"
  /\ stdout' = stdout \cup {"creating video"}
  /\ IF SlideshowImageDir(opts) \notin dirs
       THEN /\ Throw("readdir failed")
            /\ UNCHANGED images
       ELSE /\ images' = SortedImages(disk, SlideshowImageDir(opts))
            /\ IF Len(images') < 2
                 THEN Throw("need at least 2 images")
                 ELSE pc' = "batch" /\ UNCHANGED thrown
  /\ i' = 0
  /\ batchVideoFiles' = <<>>
  /\ UNCHANGED <<opts, photoConfigFile, dirs, disk, frames, exitCode,
                 stderr, queue, dlKind, dlIndex, downloading, encoding,
                 batchImages, spawned, concatList>>
  /\ UNCHANGED audioVars


\* Math.ceil(i / batchSize) + 1
BatchNumber(idx) == (idx + batchSize - 1) \div batchSize + 1

\* Mutant of BatchSlice: the slice ends one image early.
BatchSliceShort(imgs, idx) ==
  SubSeq(imgs, idx + 1, Min(idx + batchSize - 1, Len(imgs)))

\* images.slice(i, i + batchSize)
BatchSlice(imgs, idx) == SubSeq(imgs, idx + 1, Min(idx + batchSize, Len(imgs)))

\* path.join(path.dirname(outputFile), `batch_${...}.mp4`)
BatchOutputFile(videoDir, idx) == <<videoDir, "batch", BatchNumber(idx)>>

\* createPartialVideoAsync maps [xf{numImages-2}], which its xfade loop
\* defines only for numImages - 2 >= 0; ffmpeg rejects an undefined label.
MapLabelDefined(numImages) == numImages - 2 >= 0

\* The filter of image k (0-based): [k:v]scale,crop,zoompan,setsar[vk]
ImageFilter(imgDuration, k) ==
  [in |-> << <<":v", k>> >>, name |-> "scale,crop,zoompan,setsar",
   args |-> <<imgDuration * fps, fps>>, out |-> << <<"v", k>> >>]

\* Mutant of XfadeOffset: the offset of crossfade k is taken k times.
XfadeOffsetFromZero(imgDuration, fadeDuration, k) ==
  (imgDuration - fadeDuration) * k

\* const offset = (imgDuration - fadeDuration) * (i + 1)
XfadeOffset(imgDuration, fadeDuration, k) ==
  (imgDuration - fadeDuration) * (k + 1)

\* One turn of the xfade loop (k is its i): [v0][v1] or [xf{k-1}][v{k+1}]
\* xfade=transition=fade:duration=fadeDuration:offset=offset [xf{k}]
Xfade(imgDuration, fadeDuration, k) ==
  [in |-> IF k = 0 THEN << <<"v", 0>>, <<"v", 1>> >>
          ELSE << <<"xf", k - 1>>, <<"v", k + 1>> >>,
   name |-> "xfade",
   args |-> <<fadeDuration, XfadeOffset(imgDuration, fadeDuration, k)>>,
   out |-> << <<"xf", k>> >>]

\* createPartialVideoAsync up to the spawn: the filter graph (one filter
\* per image, then one xfade per turn of for (i = 0; i < numImages - 1)),
\* the label mapped and the -t of the command
createPartialVideo(batch, imgDuration, fadeDuration) ==
  [filter |-> [k \in 1..Len(batch) |-> ImageFilter(imgDuration, k - 1)]
              \o [k \in 1..(Len(batch) - 1) |->
                    Xfade(imgDuration, fadeDuration, k - 1)],
   map |-> <<"xf", Len(batch) - 2>>,
   totalDuration |-> (imgDuration - fadeDuration) * Len(batch) + fadeDuration]

\* The loop head: slice the batch, call createPartialVideoAsync, spawn ffmpeg
BatchSpawn ==
  /\ pc = "batch"
  /\ batchImages' = BatchSlice(images, i)
  /\ spawned' =
       Append(spawned,
              [images |-> batchImages',
               output |-> BatchOutputFile(opts.videoDir, i),
               command |-> createPartialVideo(batchImages', opts.photoDuration,
                                              opts.fadeDuration)])
  /\ encoding' = encoding \cup {BatchOutputFile(opts.videoDir, i)}
  /\ pc' = "batchRunning"
  /\ UNCHANGED <<opts, photoConfigFile, dirs, disk, frames, exitCode,
                 stderr, stdout, thrown, queue, dlKind, dlIndex, downloading,
                 images, i, batchVideoFiles, concatList>>
  /\ UNCHANGED audioVars

\* The position after the batch that started at `idx`: for (...; i += batchSize)
AfterBatch(idx, numImages) ==
  IF idx + batchSize < numImages THEN "batch" ELSE "assemble"

\* ffmpeg.on('close'): resolve on code 0, reject otherwise
BatchClose ==
  /\ pc = "batchRunning"
  /\ encoding' = encoding \ {BatchOutputFile(opts.videoDir, i)}
  /\ \E code \in {0, 1} :
       /\ code = 0 => MapLabelDefined(Len(batchImages))
       /\ IF code = 0
            THEN /\ disk' = disk \cup {BatchOutputFile(opts.videoDir, i)}
                 /\ frames' = [p \in DOMAIN frames
                                      \cup {BatchOutputFile(opts.videoDir, i)}
                               |-> IF p = BatchOutputFile(opts.videoDir, i)
                                     THEN batchImages ELSE frames[p]]
                 /\ stdout' = stdout \cup {"slideshow created"}
                 /\ batchVideoFiles' =
                      Append(batchVideoFiles, BatchOutputFile(opts.videoDir, i))
                 /\ i' = i + batchSize
                 /\ pc' = AfterBatch(i, Len(images))
                 /\ UNCHANGED thrown
            ELSE /\ Throw("FFmpeg exited with code 1")
                 /\ UNCHANGED <<disk, frames, stdout, batchVideoFiles, i>>
  /\ UNCHANGED <<opts, photoConfigFile, dirs, exitCode, stderr, queue,
                 dlKind, dlIndex, downloading, images, batchImages, spawned,
                 concatList>>
  /\ UNCHANGED audioVars

\* Mutant of WithTitleAndEnding: the title is pushed instead of unshifted.
WithTitleAndEndingPushed(o, batches) ==
  batches
    \o (IF o.title THEN <<TitlePath>> ELSE <<>>)
    \o (IF o.ending THEN <<EndingPath>> ELSE <<>>)

\* if (title) unshift(title); if (ending) push(ending)
WithTitleAndEnding(o, batches) ==
  (IF o.title THEN <<TitlePath>> ELSE <<>>)
    \o batches
    \o (IF o.ending THEN <<EndingPath>> ELSE <<>>)

ListFile(videoDir) == <<videoDir, "concat_list", 0>>

\* path.relative(fromDir, file): the way from fromDir to the file
Relative(fromDir, file) ==
  [up |-> IF file[1] = fromDir THEN <<>> ELSE <<"..", file[1]>>,
   kind |-> file[2], num |-> file[3]]

\* How ffmpeg's concat demuxer reads an entry: relative to the list file
Resolve(listDir, entry) ==
  <<IF entry.up = <<>> THEN listDir ELSE entry.up[2], entry.kind, entry.num>>

RECURSIVE Concat(_, _)
\* The frames of the listed videos, one after the other
Concat(fr, videoFiles) ==
  IF videoFiles = <<>> THEN <<>>
  ELSE fr[Head(videoFiles)] \o Concat(fr, Tail(videoFiles))

\* After the loop: add title and ending, then rename or start the concat
Assemble ==
  /\ pc = "assemble"
  /\ batchVideoFiles' = WithTitleAndEnding(opts, batchVideoFiles)
  /\ IF Len(batchVideoFiles') = 1
       THEN \* fs.renameSync(batchVideoFiles[0], outputFile)
            /\ disk' = (disk \ {batchVideoFiles'[1]}) \cup {OutputFile}
            /\ frames' = [p \in (DOMAIN frames \ {batchVideoFiles'[1]})
                                 \cup {OutputFile}
                          |-> IF p = OutputFile
                                THEN frames[batchVideoFiles'[1]]
                                ELSE frames[p]]
            /\ pc' = "finish"
            /\ UNCHANGED <<encoding, concatList>>
       ELSE \* mergeAllPlainConcatAsync up to the spawn
            /\ concatList' = [k \in 1..Len(batchVideoFiles') |->
                                Relative(opts.videoDir, batchVideoFiles'[k])]
            /\ disk' = disk \cup {ListFile(opts.videoDir)}
            /\ encoding' = encoding \cup {OutputFile}
            /\ pc' = "concatRunning"
            /\ UNCHANGED frames
  /\ UNCHANGED <<opts, photoConfigFile, dirs, exitCode, stderr, stdout,
                 thrown, queue, dlKind, dlIndex, downloading, images, i,
                 batchImages, spawned>>
  /\ UNCHANGED audioVars

\* mergeAllPlainConcatAsync: ffmpeg.on('close')
ConcatClose ==
  /\ pc = "concatRunning"
  /\ encoding' = encoding \ {OutputFile}
  /\ \E code \in {0, 1} :
       IF code = 0
         THEN /\ disk' = (disk \ {ListFile(opts.videoDir)}) \cup {OutputFile}
              /\ frames' =
                   [p \in DOMAIN frames \cup {OutputFile} |->
                      IF p = OutputFile
                        THEN Concat(frames,
                               [k \in 1..Len(concatList) |->
                                  Resolve(opts.videoDir, concatList[k])])
                        ELSE frames[p]]
              /\ stdout' = stdout \cup {"merged video saved"}
              /\ pc' = "finish"
              /\ UNCHANGED thrown
         ELSE /\ disk' = disk \ {ListFile(opts.videoDir)}
              /\ Throw("FFmpeg exited with code 1")
              /\ UNCHANGED <<frames, stdout>>
  /\ UNCHANGED <<opts, photoConfigFile, dirs, exitCode, stderr, queue,
                 dlKind, dlIndex, downloading, images, i, batchImages,
                 batchVideoFiles, spawned, concatList>>
  /\ UNCHANGED audioVars

\* cleanUpFilesAsync(outputDir): the batch_*.mp4 files of outputDir
CleanUpTargets(fileSet) ==
  {p \in fileSet : p[1] = OutDir /\ p[2] = "batch"}

\* console.log("Video created successfully"); await cleanUpFilesAsync(outputDir);
\* the async function returns and the process ends with status 0
Finish ==
  /\ pc = "finish"
  /\ stdout' = stdout \cup {"video created successfully"}
  /\ disk' = disk \ CleanUpTargets(disk)
  /\ frames' = [p \in DOMAIN frames \ CleanUpTargets(disk) |-> frames[p]]
  /\ Exit(0)
  /\ UNCHANGED <<opts, photoConfigFile, dirs, stderr, thrown, queue, dlKind,
                 dlIndex, downloading, encoding, images, i, batchImages,
                 batchVideoFiles, spawned, concatList>>
  /\ UNCHANGED audioVars

\* catch (error) { console.error(`Error: ...`) }: nothing sets an exit
\* status, so the process ends with status 0
Catch ==
  /\ pc = "catch"
  /\ stderr' = stderr \cup {thrown}
  /\ Exit(0)
  /\ UNCHANGED <<opts, photoConfigFile, dirs, disk, frames, stdout, thrown,
                 queue, dlKind, dlIndex, downloading, encoding, images, i,
                 batchImages, batchVideoFiles, spawned, concatList>>
  /\ UNCHANGED audioVars

VGNext ==
  \/ CheckRequired
  \/ CheckTitle
  \/ CheckEnding
  \/ CheckPhotoConfig
  \/ SelectSource
  \/ AlbumResponse
  \/ DownloadStart
  \/ DownloadFinish
  \/ DownloadFail
  \/ ReadImages
  \/ BatchSpawn
  \/ BatchClose
  \/ Assemble
  \/ ConcatClose
  \/ Finish
  \/ Catch



\* The variables of immich-video-gen while an audio command runs.
VideoIdle ==
  /\ opts = [url |-> FALSE, album |-> FALSE, token |-> FALSE,
             photoConfig |-> FALSE, inputDir |-> "", title |-> FALSE,
             ending |-> FALSE, videoDir |-> OutDir,
             photoDuration |-> 0, fadeDuration |-> 0]
  /\ photoConfigFile = FALSE
  /\ disk = {}
  /\ frames = <<>>
  /\ thrown = ""
  /\ queue = <<>>
  /\ dlKind = ""
  /\ dlIndex = 0
  /\ downloading = {}
  /\ images = <<>>
  /\ i = 0
  /\ batchImages = <<>>
  /\ batchVideoFiles = <<>>
  /\ spawned = <<>>
  /\ concatList = <<>>

\* What an audio command leaves alone of immich-video-gen's variables.
videoOnly == <<opts, photoConfigFile, disk, frames, thrown, queue, dlKind,
               dlIndex, downloading, images, i, batchImages, batchVideoFiles,
               spawned, concatList>>

\* ------------------------------------------------------ audio-config-gen
MusicDir == "music"  \* the --audio-dir
WorkDir == "work"    \* another folder the command can be started from

\* The file names of the model, in the order of Array.prototype.sort()
NamesInOrder == <<"a.mp3", "b.mp3", "notes.txt">>

\* f.toLowerCase().endsWith('.mp3')
EndsWithMp3(name) == name \in {"a.mp3", "b.mp3"}

\* A path string is [dir, name], with dir = "" when it is relative.  The
\* file a process started in folder wd reaches through it:
Absolute(wd, p) == <<IF p.dir = "" THEN wd ELSE p.dir, p.name>>

\* The durations of the mp3 files of the model: 0.5 s and 3.7 s
AudioDurations == {Second \div 2, (37 * Second) \div 10}

\* --fade-in / --fade-out values: 0 s and 2 s
FadeValues == {0, 2 * Second}

\* parseInt("3.700000") = 3: the digits before the decimal point
ParseInt(d) == (d \div Second) * Second

\* parseFloat("3.700000") = 3.7
ParseFloat(d) == d

\* The locations a playlist can list: an absolute file:// URL of an mp3,
\* a relative mp3 name, and a file that is no mp3.
Locations ==
  {[scheme |-> "file://", dir |-> MusicDir, name |-> "a.mp3"],
   [scheme |-> "", dir |-> "", name |-> "b.mp3"],
   [scheme |-> "file://", dir |-> MusicDir, name |-> "notes.txt"]}

Playlists == UNION {[1..n -> Locations] : n \in 0..MaxEntries}

AGInit ==
  /\ cwd \in {MusicDir, WorkDir}
  /\ audioOpts \in [audioDir : BOOLEAN, xspfFile : BOOLEAN,
                    fadeIn : FadeValues, fadeOut : FadeValues]
  /\ playlist \in
       (IF audioOpts.xspfFile /\ ~audioOpts.audioDir
          THEN {[exists |-> FALSE, locations |-> <<>>]}
               \cup {[exists |-> TRUE, locations |-> l] : l \in Playlists}
          ELSE {[exists |-> FALSE, locations |-> <<>>]})
  /\ \E musicExists \in BOOLEAN,
        da \in {0} \cup AudioDurations, db \in {0} \cup AudioDurations,
        dw \in {0, Second} :
       /\ ~musicExists => da = 0 /\ db = 0
       /\ dirs = {WorkDir} \cup (IF musicExists THEN {MusicDir} ELSE {})
       /\ audioFiles =
            [p \in (IF da > 0 THEN {<<MusicDir, "a.mp3">>} ELSE {})
                   \cup (IF db > 0 THEN {<<MusicDir, "b.mp3">>} ELSE {})
                   \cup (IF musicExists THEN {<<MusicDir, "notes.txt">>}
                         ELSE {})
                   \cup (IF dw > 0 THEN {<<WorkDir, "a.mp3">>} ELSE {})
             |-> IF p = <<MusicDir, "a.mp3">> THEN da
                 ELSE IF p = <<MusicDir, "b.mp3">> THEN db
                 ELSE IF p = <<WorkDir, "a.mp3">> THEN dw
                 ELSE 0]
  /\ files = <<>>
  /\ currentStart = 0
  /\ config = <<>>
  /\ probed = <<>>
  /\ output = <<>>
  /\ mergeOpts = [videoFile |-> FALSE, configFile |-> FALSE,
                  videoExists |-> FALSE, configExists |-> FALSE,
                  videoLength |-> 0]
  /\ audioConfigs = <<>>
  /\ trackIdx = 0
  /\ warnings = {}
  /\ videoDuration = 0
  /\ ffmpegCmd = NoCommand
  /\ pc = "selectFiles"
  /\ exitCode = Running
  /\ stderr = {}
  /\ stdout = {}
  /\ encoding = {}
  /\ VideoIdle

\* The order in which the file system lists the names of the model
DirOrder == <<"notes.txt", "b.mp3", "a.mp3">>

\* fs.readdirSync(dirPath): the names of the folder's files, as listed
ReadDir(fileMap, dir) ==
  SelectSeq(DirOrder, LAMBDA n : <<dir, n>> \in DOMAIN fileMap)

\* Mutant of SortNames: the list is left as the file system gave it.
SortNamesSkipped(names) == names

\* names.sort(): by code units, which is the order of NamesInOrder
SortNames(names) ==
  SelectSeq(NamesInOrder, LAMBDA n : \E k \in DOMAIN names : names[k] = n)

\* readdirSync(dirPath).filter(endsWith('.mp3')).sort(): bare file names
AudioDirFiles(fileMap, dir) ==
  LET names == SortNames(SelectSeq(ReadDir(fileMap, dir), EndsWithMp3))
  IN [k \in 1..Len(names) |-> [dir |-> "", name |-> names[k]]]

\* path.resolve(loc) of a location stripped of "file://"
ResolveLocation(wd, loc) ==
  [dir |-> IF loc.dir = "" THEN wd ELSE loc.dir, name |-> loc.name]

\* entries.map(strip file://, path.resolve).filter(endsWith('.mp3'))
XspfFiles(wd, locations) ==
  SelectSeq([k \in 1..Len(locations) |-> ResolveLocation(wd, locations[k])],
            LAMBDA f : EndsWithMp3(f.name))

\* The position after the file list is known.
AfterSelect(list) == IF Len(list) = 0 THEN "write" ELSE "probe"

\* if (audioDir) {...} else if (xspfFile) {...} else { error; help; exit }
SelectFiles ==
  /\ pc = "selectFiles"
  /\ IF audioOpts.audioDir
       THEN IF MusicDir \notin dirs
              THEN /\ stderr' = stderr \cup {"directory does not exist"}
                   /\ Exit(1)
                   /\ UNCHANGED files
              ELSE /\ files' = AudioDirFiles(audioFiles, MusicDir)
                   /\ pc' = AfterSelect(files')
                   /\ UNCHANGED <<stderr, exitCode>>
     ELSE IF audioOpts.xspfFile
       THEN IF ~playlist.exists
              THEN /\ stderr' = stderr \cup {"XSPF file does not exist"}
                   /\ Exit(1)
                   /\ UNCHANGED files
              ELSE /\ files' = XspfFiles(cwd, playlist.locations)
                   /\ pc' = AfterSelect(files')
                   /\ UNCHANGED <<stderr, exitCode>>
     ELSE /\ stderr' = stderr \cup {"must specify --audio-dir or --xspf-file"}
          /\ Exit(HelpExitCode)
          /\ UNCHANGED files
  /\ UNCHANGED <<cwd, audioFiles, audioOpts, playlist, currentStart, config,
                 probed, output, mergeOpts, audioConfigs, trackIdx, warnings,
                 videoDuration, ffmpegCmd, dirs, stdout, encoding>>
  /\ UNCHANGED videoOnly

\* getAudioDuration(filePath): ffprobe is run in the command's working
\* directory; the result is <<ok, value>>
getAudioDuration(fileMap, wd, filePath) ==
  LET p == Absolute(wd, filePath)
  IN IF p \in DOMAIN fileMap /\ fileMap[p] > 0
       THEN <<TRUE, ParseInt(fileMap[p])>>
       ELSE <<FALSE, 0>>

\* One turn of for (const file of files)
ProbeFile ==
  /\ pc = "probe"
  /\ LET file == files[Len(config) + 1]
         duration == getAudioDuration(audioFiles, cwd, file)
     IN /\ probed' = Append(probed, Absolute(cwd, file))
        /\ IF ~duration[1]
             THEN /\ stderr' = stderr \cup {"failed to get duration"}
                  /\ Exit(1)
                  /\ UNCHANGED <<config, currentStart>>
             ELSE /\ config' = Append(config,
                                 [file |-> file,
                                  start |-> currentStart,
                                  end |-> currentStart + duration[2],
                                  fileStart |-> 0,
                                  fadeIn |-> audioOpts.fadeIn,
                                  fadeOut |-> audioOpts.fadeOut])
                  /\ currentStart' = currentStart + duration[2]
                  /\ pc' = IF Len(config') = Len(files) THEN "write"
                           ELSE "probe"
                  /\ UNCHANGED <<stderr, exitCode>>
  /\ UNCHANGED <<cwd, audioFiles, audioOpts, playlist, files, output,
                 mergeOpts, audioConfigs, trackIdx, warnings, videoDuration,
                 ffmpegCmd, dirs, stdout, encoding>>
  /\ UNCHANGED videoOnly

\* fs.writeFileSync(output, JSON.stringify(config)); the script ends.
\* Finite numbers and strings come back from JSON unchanged.
WriteConfig ==
  /\ pc = "write"
  /\ output' = config
  /\ stdout' = stdout \cup {"audio config written"}
  /\ Exit(0)
  /\ UNCHANGED <<cwd, audioFiles, audioOpts, playlist, files, currentStart,
                 config, probed, mergeOpts, audioConfigs, trackIdx, warnings,
                 videoDuration, ffmpegCmd, dirs, stderr, encoding>>
  /\ UNCHANGED videoOnly

AGNext ==
  \/ SelectFiles
  \/ ProbeFile
  \/ WriteConfig

\* The audio-config-gen command.
SpecAudioGen == AGInit /\ [][AGNext]_vars

\* ------------------------------------------------- video-and-audio-merge
\* fileStart of a track that has none
Absent == -1

\* audio.fileStart ?? 0
FileStartOrZero(audio) ==
  IF audio.fileStart = Absent THEN 0 ELSE audio.fileStart

\* The (start, end) pairs of the model's tracks: end > start, end = start
\* and end < start all occur.
TrackTimes ==
  {t \in (0..MaxTime) \X (0..MaxTime) : t[2] >= t[1] - 1}

\* The (start, end) pairs of the tracks whose fades are explored: they
\* start at 0, 0.4 ms and 0.6 ms and last 0.2 ms or 0.3 ms.
FadeTrackTimes ==
  {<<0, 2 * TicksPerEps>>, <<4 * TicksPerEps, 6 * TicksPerEps>>,
   <<6 * TicksPerEps, 9 * TicksPerEps>>}

\* The fadeIn / fadeOut values explored: none, 0, 0.1 ms, 0.2 ms, 0.3 ms
FadeChoices == {Absent, 0, TicksPerEps, 2 * TicksPerEps, 3 * TicksPerEps}

\* The length of the video file: 3 s
VideoLength == 3 * Second

\* A config of the model: one track per (start, end) pair, with the same
\* fileStart (absent or 1 tick) and the same fades in all of them.  All
\* tracks play parts of one audio file.
MergeConfig(times, fst, fIn, fOut) ==
  [k \in 1..Len(times) |->
     [file |-> [dir |-> MusicDir, name |-> "a.mp3"],
      start |-> times[k][1], end |-> times[k][2],
      fileStart |-> fst, fadeIn |-> fIn, fadeOut |-> fOut]]

\* path.resolve(outputFile)
MergeOutput == <<WorkDir, "merged", 0>>

MGInit ==
  /\ mergeOpts \in [videoFile : BOOLEAN, configFile : BOOLEAN,
                    videoExists : BOOLEAN, configExists : BOOLEAN,
                    videoLength : {0, VideoLength}]
  /\ mergeOpts.videoExists <=> mergeOpts.videoLength = VideoLength
  /\ ~mergeOpts.videoFile => ~mergeOpts.videoExists
  /\ ~mergeOpts.configFile => ~mergeOpts.configExists
  /\ \/ \* up to MaxTracks tracks without fades; the audio file exists
        \* with a duration of 1..MaxTime+1 ticks or does not exist
        \E n \in 0..MaxTracks :
          \E times \in [1..n -> TrackTimes], fst \in {Absent, 1},
             actual \in 0..(MaxTime + 1) :
            /\ ~(mergeOpts.videoExists /\ mergeOpts.configExists)
                 => n = 0 /\ fst = Absent /\ actual = 0
            /\ output = MergeConfig(times, fst, 0, 0)
            /\ audioFiles = [p \in (IF actual > 0 THEN {<<MusicDir, "a.mp3">>}
                                    ELSE {}) |-> actual]
     \/ \* one or two tracks with fades; the audio file lasts 1 s
        /\ mergeOpts.videoExists /\ mergeOpts.configExists
        /\ \E n \in 1..2 :
             \E times \in [1..n -> FadeTrackTimes],
                fIn \in FadeChoices, fOut \in FadeChoices :
               output = MergeConfig(times, Absent, fIn, fOut)
        /\ audioFiles = [p \in {<<MusicDir, "a.mp3">>} |-> Second]
  /\ cwd = WorkDir
  /\ audioOpts = [audioDir |-> FALSE, xspfFile |-> FALSE,
                  fadeIn |-> 0, fadeOut |-> 0]
  /\ playlist = [exists |-> FALSE, locations |-> <<>>]
  /\ files = <<>>
  /\ currentStart = 0
  /\ config = <<>>
  /\ probed = <<>>
  /\ audioConfigs = <<>>
  /\ trackIdx = 0
  /\ warnings = {}
  /\ videoDuration = 0
  /\ ffmpegCmd = NoCommand
  /\ dirs = {WorkDir, MusicDir}
  /\ pc = "parseOptions"
  /\ exitCode = Running
  /\ stderr = {}
  /\ stdout = {}
  /\ encoding = {}
  /\ VideoIdle

\* What the merge leaves alone of audio-config-gen's variables.
audioGenOnly == <<cwd, audioFiles, audioOpts, playlist, files, currentStart,
                  config, probed, output, dirs>>

\* program.parse with two requiredOption: commander ends the process with
\* status 1 when one is not given
ParseOptions ==
  /\ pc = "parseOptions"
  /\ IF ~mergeOpts.videoFile \/ ~mergeOpts.configFile
       THEN /\ stderr' = stderr \cup {"required option not specified"}
            /\ Exit(1)
       ELSE /\ pc' = "checkFiles"
            /\ UNCHANGED <<stderr, exitCode>>
  /\ UNCHANGED <<mergeOpts, audioConfigs, trackIdx, warnings, stdout,
                 encoding, videoDuration, ffmpegCmd>>
  /\ UNCHANGED <<audioGenOnly, videoOnly>>

\* if (!existsSync(videoFile)) exit(1); if (!existsSync(configFile)) exit(1)
CheckFiles ==
  /\ pc = "checkFiles"
  /\ IF ~mergeOpts.videoExists
       THEN /\ stderr' = stderr \cup {"video file not found"}
            /\ Exit(1)
     ELSE IF ~mergeOpts.configExists
       THEN /\ stderr' = stderr \cup {"config file not found"}
            /\ Exit(1)
     ELSE /\ pc' = "loadConfig"
          /\ UNCHANGED <<stderr, exitCode>>
  /\ UNCHANGED <<mergeOpts, audioConfigs, trackIdx, warnings, stdout,
                 encoding, videoDuration, ffmpegCmd>>
  /\ UNCHANGED <<audioGenOnly, videoOnly>>

\* The position after track `k` (0-based) of `n` passed validation.
AfterTrack(k, n) == IF k + 1 < n THEN "validate" ELSE "gapCheck"

\* videoDuration = getMediaDuration(videoFile); audioConfigs = JSON.parse(...)
LoadConfig ==
  /\ pc = "loadConfig"
  /\ \E probeOk \in BOOLEAN :
       IF ~probeOk
         THEN /\ stderr' = stderr \cup {"failed to get duration"}
              /\ Exit(1)
              /\ UNCHANGED <<audioConfigs, videoDuration>>
         ELSE /\ videoDuration' = ParseFloat(mergeOpts.videoLength)
              /\ audioConfigs' = output
              /\ pc' = AfterTrack(-1, Len(output))
              /\ UNCHANGED <<stderr, exitCode>>
  /\ UNCHANGED <<mergeOpts, trackIdx, warnings, stdout, encoding, ffmpegCmd>>
  /\ UNCHANGED <<audioGenOnly, videoOnly>>

\* Mutant of DurationProblem: the second check is < 0 instead of <= 0.
DurationProblemStrict(audio, actualAudioDuration) ==
  LET usableDuration == actualAudioDuration - FileStartOrZero(audio)
      requestedDuration == audio.end - audio.start
  IN IF requestedDuration > usableDuration + Eps
       THEN "exceeds actual file duration"
     ELSE IF requestedDuration < 0 THEN "end <= start"
     ELSE ""

\* The two duration checks of the validation step: the message of the one
\* that fails, "" if none
DurationProblem(audio, actualAudioDuration) ==
  LET usableDuration == actualAudioDuration - FileStartOrZero(audio)
      requestedDuration == audio.end - audio.start
  IN IF requestedDuration > usableDuration + Eps
       THEN "exceeds actual file duration"
     ELSE IF requestedDuration <= 0 THEN "end <= start"
     ELSE ""

\* The validation of one track, given what existsSync and ffprobe answer:
\* the message of the check that fails, "" if none
TrackProblem(audio, exists, probeOk, actualAudioDuration) ==
  IF ~exists THEN "audio file not found"
  ELSE IF ~probeOk THEN "failed to get duration"
  ELSE DurationProblem(audio, actualAudioDuration)

\* fs.existsSync(file) of a process started in folder wd
existsSync(fileMap, wd, file) == Absolute(wd, file) \in DOMAIN fileMap

\* What ffprobe prints for a file that exists (0 stands in for one that
\* does not: existsSync is asked first)
ProbedDuration(fileMap, wd, file) ==
  IF existsSync(fileMap, wd, file) THEN fileMap[Absolute(wd, file)] ELSE 0

\* One turn of the validation forEach
ValidateTrack ==
  /\ pc = "validate"
  /\ \E probeOk \in BOOLEAN :
       LET audio == audioConfigs[trackIdx + 1]
           problem ==
             TrackProblem(audio, existsSync(audioFiles, cwd, audio.file),
                          probeOk,
                          ParseFloat(ProbedDuration(audioFiles, cwd,
                                                    audio.file)))
       IN IF problem # ""
            THEN /\ stderr' = stderr \cup {problem}
                 /\ Exit(1)
                 /\ UNCHANGED trackIdx
            ELSE /\ trackIdx' = trackIdx + 1
                 /\ pc' = AfterTrack(trackIdx, Len(audioConfigs))
                 /\ UNCHANGED <<stderr, exitCode>>
  /\ UNCHANGED <<mergeOpts, audioConfigs, warnings, stdout, encoding,
                 videoDuration, ffmpegCmd>>
  /\ UNCHANGED <<audioGenOnly, videoOnly>>

RECURSIVE InsertByStart(_, _)
\* `audio` put into a list sorted by start, after the tracks that start no
\* later (the sort is stable)
InsertByStart(sorted, audio) ==
  IF sorted = <<>> THEN <<audio>>
  ELSE IF sorted[Len(sorted)].start - audio.start <= 0
    THEN Append(sorted, audio)
  ELSE Append(InsertByStart(SubSeq(sorted, 1, Len(sorted) - 1), audio),
              sorted[Len(sorted)])

RECURSIVE SortPrefix(_, _)
SortPrefix(s, n) ==
  IF n = 0 THEN <<>> ELSE InsertByStart(SortPrefix(s, n - 1), s[n])

\* [...audioConfigs].sort((a, b) => a.start - b.start)
sortedConfigs(s) == SortPrefix(s, Len(s))

\* gap > 0.0001
IsGap(gap) == gap > Eps

\* gap < -0.0001
IsOverlap(gap) == gap < -Eps

\* Mutant of ScanOrder: the loop runs over the config in file order.
ScanOrderUnsorted(s) == s

\* The list whose neighbours the gap and overlap loop compares
ScanOrder(s) == sortedConfigs(s)

\* The warnings of the gap and overlap loop
GapAndOverlapWarnings(s) ==
  LET sorted == ScanOrder(s)
  IN {[kind |-> "gap", at |-> k] :
        k \in {j \in 1..(Len(sorted) - 1) :
                 IsGap(sorted[j + 1].start - sorted[j].end)}}
     \cup
     {[kind |-> "overlap", at |-> k] :
        k \in {j \in 1..(Len(sorted) - 1) :
                 IsOverlap(sorted[j + 1].start - sorted[j].end)}}

\* --- Gap & Overlap Check ---
GapCheck ==
  /\ pc = "gapCheck"
  /\ warnings' = GapAndOverlapWarnings(audioConfigs)
  /\ pc' = "spawnMerge"
  /\ UNCHANGED <<mergeOpts, audioConfigs, trackIdx, stdout, stderr, exitCode,
                 encoding, videoDuration, ffmpegCmd>>
  /\ UNCHANGED <<audioGenOnly, videoOnly>>

\* A label of the filter graph is a pair <<name, number>>.
\* `[${k}:a]`: a stream of the ffmpeg input with index k
InputPad(k, stream) == <<stream, k>>

\* [aout]
MixOutput == <<"aout", 0>>

\* Math.round(audio.start * 1000): a time in ticks, in whole ms
delayMs(start) == (start + 5 * TicksPerEps) \div (10 * TicksPerEps)

\* Mutant of FadeApplies: the fade is not compared with the duration.
FadeAppliesAnyLength(fade, requested) == fade # Absent /\ fade # 0 /\ fade > 0

\* audio.fadeIn && audio.fadeIn > 0 && audio.fadeIn < duration
FadeApplies(fade, requested) ==
  fade # Absent /\ fade # 0 /\ fade > 0 /\ fade < requested

\* A filter is [in, name, args, out]: the labels it consumes, its name, its
\* numbers, the labels it produces.
\* Step 1: atrim=start=fileStart:duration=duration,asetpts=PTS-STARTPTS
TrimFilter(audio, index) ==
  [in |-> <<InputPad(index + 1, ":a")>>, name |-> "atrim",
   args |-> <<FileStartOrZero(audio), audio.end - audio.start>>,
   out |-> << <<"atrim", index>> >>]

\* Step 2: afade=t=in:st=0:d=fadeIn
FadeInFilter(audio, index, lastLabel) ==
  [in |-> <<lastLabel>>, name |-> "afade=t=in",
   args |-> <<0, audio.fadeIn>>,
   out |-> << <<"fadein", index>> >>]

\* Step 3: afade=t=out:st=fadeOutStart:d=fadeOut
FadeOutFilter(audio, index, lastLabel) ==
  [in |-> <<lastLabel>>, name |-> "afade=t=out",
   args |-> <<(audio.end - audio.start) - audio.fadeOut, audio.fadeOut>>,
   out |-> << <<"fadeout", index>> >>]

\* Step 4: adelay=delayMs|delayMs
DelayFilter(audio, index, lastLabel) ==
  [in |-> <<lastLabel>>, name |-> "adelay",
   args |-> <<delayMs(audio.start), delayMs(audio.start)>>,
   out |-> << <<"a", index>> >>]

\* lastLabel after the filters pushed so far
LastLabel(pushed) == pushed[Len(pushed)].out[1]

\* One turn of audioConfigs.forEach((audio, index) => ...): what it pushes
\* to filters
TrackFilters(audio, index) ==
  LET requested == audio.end - audio.start
      s1 == <<TrimFilter(audio, index)>>
      s2 == IF FadeApplies(audio.fadeIn, requested)
              THEN Append(s1, FadeInFilter(audio, index, LastLabel(s1)))
              ELSE s1
      s3 == IF FadeApplies(audio.fadeOut, requested)
              THEN Append(s2, FadeOutFilter(audio, index, LastLabel(s2)))
              ELSE s2
  IN Append(s3, DelayFilter(audio, index, LastLabel(s3)))

RECURSIVE FiltersUpTo(_, _)
FiltersUpTo(cfgs, n) ==
  IF n = 0 THEN <<>>
  ELSE FiltersUpTo(cfgs, n - 1) \o TrackFilters(cfgs[n], n - 1)

\* filters, after the forEach
filters(cfgs) == FiltersUpTo(cfgs, Len(cfgs))

\* finalAudioLabels, after the unshift of the silent input's label
finalAudioLabels(cfgs) ==
  <<InputPad(Len(cfgs) + 1, ":a")>> \o [k \in 1..Len(cfgs) |-> <<"a", k - 1>>]

\* `${labels.join('')}amix=inputs=${labels.length}:duration=longest[aout]`
MixFilter(labels) ==
  [in |-> labels, name |-> "amix", args |-> <<Len(labels)>>,
   out |-> <<MixOutput>>]

\* What stands between two ';' when no filter does
EmptyChain == [in |-> <<>>, name |-> "", args |-> <<>>, out |-> <<>>]

\* `${parts.join(';')};${last}`, as the filters between the ';' of the
\* string: an empty list joins to the empty string, and the string then
\* begins with ';'
JoinedWith(parts, last) ==
  (IF parts = <<>> THEN <<EmptyChain>> ELSE parts) \o <<last>>

\* filterComplex
filterComplex(cfgs) ==
  JoinedWith(filters(cfgs), MixFilter(finalAudioLabels(cfgs)))

\* inputs: the video, the audio file of each track, the silent source
\* limited to the video's duration (-t)
inputs(cfgs, silence) ==
  <<[kind |-> "file", file |-> [dir |-> WorkDir, name |-> "video.mp4"],
     t |-> Absent]>>
  \o [k \in 1..Len(cfgs) |->
        [kind |-> "file", file |-> cfgs[k].file, t |-> Absent]]
  \o <<[kind |-> "anullsrc", file |-> [dir |-> "", name |-> ""],
        t |-> silence]>>

\* The filter graph is built and ffmpeg is spawned
SpawnMerge ==
  /\ pc = "spawnMerge"
  /\ encoding' = encoding \cup {MergeOutput}
  /\ stdout' = stdout \cup {"running FFmpeg"}
  /\ pc' = "merging"
  /\ ffmpegCmd' = [inputs |-> inputs(audioConfigs, videoDuration),
                   filterComplex |-> filterComplex(audioConfigs),
                   map |-> <<InputPad(0, ":v"), MixOutput>>]
  /\ UNCHANGED <<mergeOpts, audioConfigs, trackIdx, warnings, stderr,
                 exitCode, videoDuration>>
  /\ UNCHANGED <<audioGenOnly, videoOnly>>

\* ffmpeg.on('close'): a message either way; nothing sets an exit status,
\* so the process ends with status 0
MergeClose ==
  /\ pc = "merging"
  /\ encoding' = encoding \ {MergeOutput}
  /\ \E code \in {0, 1} :
       IF code = 0
         THEN /\ stdout' = stdout \cup {"merged successfully"}
              /\ UNCHANGED stderr
         ELSE /\ stderr' = stderr \cup {"FFmpeg exited with code 1"}
              /\ UNCHANGED stdout
  /\ Exit(0)
  /\ UNCHANGED <<mergeOpts, audioConfigs, trackIdx, warnings, videoDuration,
                 ffmpegCmd>>
  /\ UNCHANGED <<audioGenOnly, videoOnly>>

MGNext ==
  \/ ParseOptions
  \/ CheckFiles
  \/ LoadConfig
  \/ ValidateTrack
  \/ GapCheck
  \/ SpawnMerge
  \/ MergeClose

\* The video-and-audio-merge command.
SpecMerge == MGInit /\ [][MGNext]_vars

\* The immich-video-gen command.
Spec == VGInit /\ [][VGNext]_vars


\* ------------------------------------------------------------ properties
Max(a, b) == IF a > b THEN a ELSE b

\* The messages that report a validation failure.
ValidationMessages ==
  {"missing --url, --token", "missing --url, --album, --token",
   "missing --inputDir", "title video not found", "ending video not found",
   "photo config does not exist", "inputDir combined with photo config",
   "album combined with photo config", "invalid photo config",
   "input directory does not exist", "need at least 2 images",
   "directory does not exist", "XSPF file does not exist",
   "must specify --audio-dir or --xspf-file",
   "required option not specified", "video file not found",
   "config file not found", "audio file not found",
   "exceeds actual file duration", "end <= start"}

\* C1: in every command, once a validation failure has been reported the
\* process has ended, and with a non-zero exit status.
C1_ValidationFailureExitsNonZero ==
  (stderr \cap ValidationMessages # {}) => (pc = "exited" /\ exitCode > 0)

\* C1: immich-video-gen has reported a nonexistent --inputDir.
C1_Witness ==
  /\ pc = "exited"
  /\ "input directory does not exist" \in stderr

\* C2: when an ffmpeg subprocess has closed with a non-zero code, the
\* script ends with a non-zero exit status.
C2_FfmpegFailureExitsNonZero ==
  (pc = "exited" /\ "FFmpeg exited with code 1" \in stderr) => exitCode > 0

\* C2: a batch ffmpeg has closed with code 1 and the script has ended.
C2_Witness ==
  /\ pc = "exited"
  /\ "FFmpeg exited with code 1" \in stderr
  /\ spawned # <<>>

\* C3: at most one external operation (HTTP download or ffmpeg subprocess)
\* is in progress, and once a batch has been spawned every download of the
\* run has finished.
C3_OneExternalOperation ==
  /\ Cardinality(downloading) + Cardinality(encoding) <= 1
  /\ spawned # <<>> => (downloading = {} /\ dlIndex = Len(queue))

\* C3: a batch ffmpeg runs after two images were downloaded.
C3_Witness ==
  /\ encoding # {}
  /\ Len(queue) >= 2
  /\ pc = "batchRunning"

\* C4: with --inputDir and no Immich option, the images of the slideshow
\* are the images of the input folder, in sorted order.
C4_SlideshowFromInputDir ==
  (/\ opts.inputDir # ""
   /\ ~opts.url /\ ~opts.album /\ ~opts.token /\ ~opts.photoConfig
   /\ pc = "batch" /\ spawned = <<>>)
  => images = SortedImages(disk, opts.inputDir)

\* C4: the run with --inputDir has read its images and is about to start
\* the first batch.
C4_Witness ==
  /\ opts.inputDir = InDir
  /\ ~opts.url /\ ~opts.album /\ ~opts.token /\ ~opts.photoConfig
  /\ pc = "batch" /\ spawned = <<>>

\* Whether track `audio` of a merge config meets the three conditions of
\* validation, for a merge started in folder wd.
TrackIsValid(audio, fileMap, wd) ==
  /\ Absolute(wd, audio.file) \in DOMAIN fileMap
  /\ audio.end > audio.start
  /\ (audio.end - audio.start)
       - (fileMap[Absolute(wd, audio.file)] - FileStartOrZero(audio)) <= Eps

\* The merge script has started ffmpeg.
MergeStarted == "running FFmpeg" \in stdout

\* C5: the ffmpeg merge is started only if every track of the config is
\* valid; if a track is invalid the script ends with status 1.
C5_MergeOnlyIfAllTracksValid ==
  /\ MergeStarted =>
       \A k \in 1..Len(output) : TrackIsValid(output[k], audioFiles, cwd)
  /\ (/\ pc = "exited"
      /\ mergeOpts.videoExists /\ mergeOpts.configExists
      /\ \E k \in 1..Len(output) : ~TrackIsValid(output[k], audioFiles, cwd))
     => (exitCode = 1 /\ ~MergeStarted)

\* C5: the merge was started for a config of two tracks.
C5_Witness ==
  /\ MergeStarted
  /\ Len(output) >= 2

\* The length of the common part of two tracks' [start, end) intervals
\* (<= 0 when they do not overlap).
OverlapLength(a, b) == Min(a.end, b.end) - Max(a.start, b.start)

OverlapWarned == \E w \in warnings : w.kind = "overlap"

\* The gap and overlap check of the merge script has run.
GapCheckDone == pc \in {"spawnMerge", "merging"} \/ MergeStarted

\* C6: after the check, an overlap warning was printed if two tracks
\* overlap by more than 0.0001 s, none was printed if no two tracks
\* overlap, and whatever was printed the merge goes on to ffmpeg.
C6_OverlapWarnings ==
  /\ GapCheckDone =>
       /\ (\E a, b \in 1..Len(audioConfigs) :
             a # b /\ OverlapLength(audioConfigs[a], audioConfigs[b]) > Eps)
            => OverlapWarned
       /\ (\A a, b \in 1..Len(audioConfigs) :
             a # b => OverlapLength(audioConfigs[a], audioConfigs[b]) <= 0)
            => ~OverlapWarned
  /\ warnings # {} => (pc \in {"spawnMerge", "merging"} \/ MergeStarted)

\* C6: ffmpeg was started after an overlap warning for three tracks.
C6_Witness ==
  /\ MergeStarted
  /\ OverlapWarned
  /\ Len(audioConfigs) = 3

\* audio-config-gen has written its config.
ConfigWritten == "audio config written" \in stdout

\* C7: every config audio-config-gen writes passes the merge script's
\* validation with the audio files unchanged, and draws no warning.
C7_WrittenConfigPassesMerge ==
  ConfigWritten =>
    /\ \A k \in 1..Len(output) :
         TrackProblem(output[k], existsSync(audioFiles, cwd, output[k].file),
                      TRUE,
                      ParseFloat(ProbedDuration(audioFiles, cwd,
                                                output[k].file))) = ""
    /\ GapAndOverlapWarnings(output) = {}

\* C7: a config with a track was written.
C7_Witness ==
  /\ ConfigWritten
  /\ Len(output) >= 1

\* C8: with --audio-dir D, every file probed is a file of D, and every
\* file of a written config is an absolute path into D.
C8_AudioDirFilesDesignateDir ==
  audioOpts.audioDir =>
    /\ \A k \in 1..Len(probed) : probed[k][1] = MusicDir
    /\ ConfigWritten => \A k \in 1..Len(output) : output[k].file.dir = MusicDir

\* C8: with --audio-dir, a file was probed by a command started elsewhere.
C8_Witness ==
  /\ audioOpts.audioDir
  /\ cwd = WorkDir
  /\ Len(probed) >= 1

RECURSIVE FlattenBatches(_, _)
\* The images of the first n calls of createPartialVideoAsync, in order
FlattenBatches(calls, n) ==
  IF n = 0 THEN <<>> ELSE FlattenBatches(calls, n - 1) \o calls[n].images

VideoCreated == pc = "finish" \/ "video created successfully" \in stdout

\* C10: the output video shows the title (if given), then the images of
\* all batches in order, then the ending (if given); with one batch and
\* neither title nor ending the batch file was renamed and no concat ran.
C10_FinalVideoIsPlainConcat ==
  VideoCreated =>
    /\ OutputFile \in DOMAIN frames
    /\ frames[OutputFile] =
         (IF opts.title THEN <<TitlePath>> ELSE <<>>)
           \o images
           \o (IF opts.ending THEN <<EndingPath>> ELSE <<>>)
    /\ (Len(spawned) = 1 /\ ~opts.title /\ ~opts.ending) =>
         /\ concatList = <<>>
         /\ "merged video saved" \notin stdout
         /\ <<opts.videoDir, "batch", 1>> \notin disk

\* C10: title, two batches and ending were put together.
C10_Witness ==
  /\ pc = "finish"
  /\ opts.title /\ opts.ending
  /\ Len(spawned) = 2

\* The filters of graph g before position k that produce the label.
ProducersBefore(g, k, label) ==
  {j \in 1..(k - 1) : \E m \in DOMAIN g[j].out : g[j].out[m] = label}

\* The places of graph g where the label is consumed.
Consumers(g, label) ==
  {km \in (DOMAIN g) \X (1..(Len(g) + 1)) :
     km[2] \in DOMAIN g[km[1]].in /\ g[km[1]].in[km[2]] = label}

\* C11: the command of the merge has N+2 inputs (the video, the N tracks'
\* files in order, silence of the video's duration); its filter graph
\* holds a filter between any two ';', every label consumed is an input
\* stream or the output of exactly one earlier filter, each [a_i] is
\* consumed once, by amix, and amix mixes N+1 inputs, the silence among
\* them, into the mapped [aout].
C11_FilterGraphWellFormed ==
  ffmpegCmd # NoCommand =>
    LET N == Len(audioConfigs)
        g == ffmpegCmd.filterComplex
        mix == g[Len(g)]
    IN /\ Len(ffmpegCmd.inputs) = N + 2
       /\ ffmpegCmd.inputs[1].kind = "file"
       /\ ffmpegCmd.inputs[1].file.name = "video.mp4"
       /\ \A k \in 1..N :
            /\ ffmpegCmd.inputs[k + 1].kind = "file"
            /\ ffmpegCmd.inputs[k + 1].file = audioConfigs[k].file
       /\ ffmpegCmd.inputs[N + 2].kind = "anullsrc"
       /\ ffmpegCmd.inputs[N + 2].t = videoDuration
       /\ \A k \in DOMAIN g : g[k].name # ""
       /\ \A k \in DOMAIN g : \A m \in DOMAIN g[k].in :
            \/ g[k].in[m][1] = ":a" /\ g[k].in[m][2] \in 0..(N + 1)
            \/ Cardinality(ProducersBefore(g, k, g[k].in[m])) = 1
       /\ mix.name = "amix"
       /\ mix.args = <<N + 1>>
       /\ Len(mix.in) = N + 1
       /\ \E m \in DOMAIN mix.in : mix.in[m] = <<":a", N + 1>>
       /\ \A j \in 0..(N - 1) :
            /\ Cardinality(Consumers(g, <<"a", j>>)) = 1
            /\ \E m \in DOMAIN mix.in : mix.in[m] = <<"a", j>>
       /\ ffmpegCmd.map = << <<":v", 0>>, <<"aout", 0>> >>
       /\ mix.out = << <<"aout", 0>> >>

\* C11: ffmpeg was spawned for a config without tracks.
C11_Witness ==
  /\ ffmpegCmd # NoCommand
  /\ Len(audioConfigs) = 0

\* The messages of immich-video-gen's check of the required options.
MissingMessages ==
  {"missing --url, --token", "missing --url, --album, --token",
   "missing --inputDir"}

\* One of the three ways to name the source of the images is complete.
SourceNamed(o) ==
  \/ o.url /\ o.album /\ o.token
  \/ o.inputDir # ""
  \/ o.url /\ o.photoConfig /\ o.token

\* immich-video-gen has not got past its checks of the options.
InOptionChecks ==
  pc \in {"checkRequired", "checkTitle", "checkEnding", "checkPhotoConfig",
          "exited"}

\* C12: immich-video-gen gets past the check of the required options iff
\* a source is named completely; if none is, it prints a missing-options
\* message and exits with status 1; --photoConfig together with
\* --inputDir or --album never gets past the checks, exits with status 1,
\* and no download or ffmpeg is started.
C12_OptionValidation ==
  /\ pc # "checkRequired" =>
       /\ (stderr \cap MissingMessages = {}) <=> SourceNamed(opts)
       /\ ~SourceNamed(opts) =>
            (pc = "exited" /\ exitCode = 1 /\ stderr \cap MissingMessages # {})
  /\ (opts.photoConfig /\ (opts.inputDir # "" \/ opts.album)) =>
       /\ InOptionChecks
       /\ pc = "exited" => exitCode = 1
       /\ queue = <<>> /\ downloading = {} /\ encoding = {} /\ spawned = <<>>

\* C12: immich-video-gen has ended after a missing-options message.
C12_Witness ==
  /\ pc = "exited"
  /\ stderr \cap MissingMessages # {}

\* The place of a file name in the order of sort().
NameRank(n) == CHOOSE k \in DOMAIN NamesInOrder : NamesInOrder[k] = n

\* The mp3 entries of the playlist, in playlist order.
Mp3Locations == SelectSeq(playlist.locations, LAMBDA l : EndsWithMp3(l.name))

\* C13: in the plan of audio-config-gen the first entry starts at 0, each
\* later entry starts where the one before it ends, each entry is as long
\* as the duration obtained for its file, has fileStart 0 and the
\* --fade-in / --fade-out values; the written plan lists the mp3 files of
\* the --audio-dir in sorted order, or the mp3 entries of the playlist in
\* playlist order.
C13_PlanIsGapFreeSequence ==
  /\ \A k \in DOMAIN config :
       /\ config[k].start = (IF k = 1 THEN 0 ELSE config[k - 1].end)
       /\ config[k].end - config[k].start = ParseInt(audioFiles[probed[k]])
       /\ config[k].fileStart = 0
       /\ config[k].fadeIn = audioOpts.fadeIn
       /\ config[k].fadeOut = audioOpts.fadeOut
  /\ ConfigWritten =>
       /\ output = config
       /\ audioOpts.audioDir =>
            /\ {output[k].file.name : k \in DOMAIN output}
                 = {n \in {"a.mp3", "b.mp3"} :
                      <<MusicDir, n>> \in DOMAIN audioFiles}
            /\ \A j, k \in DOMAIN output :
                 j < k => NameRank(output[j].file.name)
                            < NameRank(output[k].file.name)
       /\ ~audioOpts.audioDir =>
            /\ Len(output) = Len(Mp3Locations)
            /\ \A k \in DOMAIN output :
                 output[k].file.name = Mp3Locations[k].name

\* C13: a plan of two tracks was written for an --audio-dir.
C13_Witness ==
  /\ ConfigWritten
  /\ audioOpts.audioDir
  /\ Len(output) = 2
  /\ output[2].start > 0

\* The filters of graph g that work on track `index` (0-based), in order.
TrackChain(g, index) ==
  SelectSeq(g, LAMBDA f : /\ f.name \notin {"amix", ""}
                          /\ Len(f.out) = 1
                          /\ f.out[1][2] = index)

\* 0 < fade < length, for a fade that is given
FadeWithin(fade, length) == fade # Absent /\ 0 < fade /\ fade < length

\* ms is the whole number of milliseconds nearest to `start` ticks
\* (halves go up).
IsRoundedMs(ms, start) ==
  /\ (2 * ms - 1) * 5 * TicksPerEps <= start
  /\ start < (2 * ms + 1) * 5 * TicksPerEps

\* C14: in the spawned merge command the filters of each track are, in
\* this order and each fed by the one before: the trim from fileStart of
\* length end - start, a fade-in iff 0 < fadeIn < end - start, a fade-out
\* iff 0 < fadeOut < end - start which starts at (end - start) - fadeOut,
\* and the delay of round(start * 1000) ms; every fade lies inside the
\* trimmed segment, and a fade left out draws no message.
C14_TrackFilterChain ==
  ffmpegCmd # NoCommand =>
    /\ \A k \in DOMAIN audioConfigs :
         LET audio == audioConfigs[k]
             length == audio.end - audio.start
             chain == TrackChain(ffmpegCmd.filterComplex, k - 1)
         IN /\ [j \in DOMAIN chain |-> chain[j].name]
                 = <<"atrim">>
                   \o (IF FadeWithin(audio.fadeIn, length)
                         THEN <<"afade=t=in">> ELSE <<>>)
                   \o (IF FadeWithin(audio.fadeOut, length)
                         THEN <<"afade=t=out">> ELSE <<>>)
                   \o <<"adelay">>
            /\ chain[1].in = << <<":a", k>> >>
            /\ chain[1].args
                 = <<IF audio.fileStart = Absent THEN 0 ELSE audio.fileStart,
                     length>>
            /\ \A j \in 2..Len(chain) : chain[j].in = chain[j - 1].out
            /\ \A j \in DOMAIN chain :
                 /\ chain[j].name = "afade=t=in" =>
                      /\ chain[j].args = <<0, audio.fadeIn>>
                      /\ audio.fadeIn <= length
                 /\ chain[j].name = "afade=t=out" =>
                      /\ chain[j].args = <<length - audio.fadeOut, audio.fadeOut>>
                      /\ chain[j].args[1] >= 0
                      /\ chain[j].args[1] + chain[j].args[2] <= length
                 /\ chain[j].name = "adelay" =>
                      /\ chain[j].args[1] = chain[j].args[2]
                      /\ IsRoundedMs(chain[j].args[1], audio.start)
                      /\ chain[j].out = << <<"a", k - 1>> >>
    /\ pc = "merging" => (stderr = {} /\ \A w \in warnings : w.kind \in {"gap", "overlap"})

\* C14: ffmpeg was spawned for a track that starts after 0.5 ms, with a
\* fade-in shorter than the track and a fade-out as long as the track.
C14_Witness ==
  /\ ffmpegCmd # NoCommand
  /\ \E k \in DOMAIN audioConfigs :
       /\ audioConfigs[k].start > 5 * TicksPerEps
       /\ FadeWithin(audioConfigs[k].fadeIn,
                     audioConfigs[k].end - audioConfigs[k].start)
       /\ audioConfigs[k].fadeOut = audioConfigs[k].end - audioConfigs[k].start

\* An ffmpeg of immich-video-gen has closed with a non-zero code.
FfmpegFailed == thrown = "FFmpeg exited with code 1"

\* After a failed ffmpeg: nothing runs, there is no output video and no
\* success message, and the videos made so far are still there.
C15_AfterFailure ==
  FfmpegFailed =>
    /\ pc \in {"catch", "exited"}
    /\ encoding = {}
    /\ OutputFile \notin disk
    /\ "video created successfully" \notin stdout
    /\ "merged video saved" \notin stdout
    /\ \A k \in DOMAIN batchVideoFiles : batchVideoFiles[k] \in disk

\* A step of immich-video-gen: a batch is spawned only when no ffmpeg
\* runs and every earlier batch has closed with code 0 and left its
\* video, and never for an output spawned before; after a failed ffmpeg
\* no step spawns, prints a success message or touches a file.
C15_Step ==
  /\ spawned' # spawned =>
       /\ encoding = {}
       /\ thrown = ""
       /\ Len(batchVideoFiles) = Len(spawned)
       /\ \A k \in DOMAIN spawned :
            /\ batchVideoFiles[k] = spawned[k].output
            /\ spawned[k].output \in DOMAIN frames
            /\ spawned[k].output # spawned'[Len(spawned')].output
  /\ FfmpegFailed =>
       /\ spawned' = spawned
       /\ encoding' = {}
       /\ disk' = disk
       /\ stdout' = stdout

\* C15: batch k+1 is spawned only after batch k's ffmpeg has closed with
\* code 0; once a batch or the concat ffmpeg has closed with a non-zero
\* code no ffmpeg is spawned any more, none is retried, the output video
\* is not made, no success message is printed and cleanup does not run.
C15_NoProgressAfterFfmpegFailure ==
  [](C15_AfterFailure) /\ [][C15_Step]_vars

\* C15: the second batch has failed after the first was made, and the
\* script has ended.
C15_Witness ==
  /\ FfmpegFailed
  /\ pc = "exited"
  /\ Len(spawned) = 2
  /\ Len(batchVideoFiles) = 1

\* The xfade filters of a command, in the order of the graph.
XfadesOf(command) == SelectSeq(command.filter, LAMBDA f : f.name = "xfade")

\* The length of the video made of the first m images of a batch, each
\* crossfaded into the next.
AccumulatedLength(m, imgDuration, fadeDuration) ==
  m * imgDuration - (m - 1) * fadeDuration

\* C16: for a batch of n >= 2 images and 0 <= fadeDuration < imgDuration
\* the command has n-1 crossfades; crossfade i (0-based) joins what the
\* crossfades before it made with image i+1, at offset
\* (imgDuration - fadeDuration)*(i+1), which is the length of the video of
\* images 0..i less fadeDuration; the offsets increase strictly, and the
\* declared duration is n*imgDuration - (n-1)*fadeDuration.
C16_CrossfadeOffsets ==
  \A b \in DOMAIN spawned :
    LET n == Len(spawned[b].images)
        xf == XfadesOf(spawned[b].command)
    IN (n >= 2 /\ 0 <= opts.fadeDuration
               /\ opts.fadeDuration < opts.photoDuration) =>
         /\ Len(xf) = n - 1
         /\ \A j \in 1..(n - 1) :
              /\ xf[j].args[1] = opts.fadeDuration
              /\ xf[j].args[2] = (opts.photoDuration - opts.fadeDuration) * j
              /\ xf[j].args[2]
                   = AccumulatedLength(j, opts.photoDuration, opts.fadeDuration)
                     - opts.fadeDuration
              /\ xf[j].in = (IF j = 1 THEN << <<"v", 0>>, <<"v", 1>> >>
                             ELSE <<xf[j - 1].out[1], <<"v", j>> >>)
              /\ xf[j].out = << <<"xf", j - 1>> >>
              /\ j > 1 => xf[j].args[2] > xf[j - 1].args[2]
         /\ spawned[b].command.totalDuration
              = AccumulatedLength(n, opts.photoDuration, opts.fadeDuration)

\* C16: a batch of three images or more was spawned with photos of 1.5 s
\* and fades of 0.5 s.
C16_Witness ==
  /\ spawned # <<>>
  /\ Len(spawned[1].images) >= 3
  /\ opts.photoDuration = (3 * Second) \div 2
  /\ opts.fadeDuration = Second \div 2

\* The labels that the filters of a command produce.
LabelsDefined(command) ==
  {command.filter[k].out[1] : k \in DOMAIN command.filter}

\* C17: every batch handed to createPartialVideoAsync holds at least 2
\* images, and the label its command maps is produced by its filter graph.
C17_EveryBatchHasTwoImages ==
  \A b \in DOMAIN spawned :
    /\ Len(spawned[b].images) >= 2
    /\ spawned[b].command.map \in LabelsDefined(spawned[b].command)

\* C17: of batchSize + 1 images, the second batch holds one.
C17_Witness ==
  /\ Len(images) = batchSize + 1
  /\ Len(spawned) = 2
  /\ Len(spawned[2].images) = 1

\* The files this run has downloaded, in download order.
Downloaded == [k \in 1..Len(queue) |-> DownloadPath(dlKind, k - 1)]

\* createSlideshowAsync has read its images and found two or more.
SlideshowStarted ==
  pc \in {"batch", "batchRunning", "assemble", "concatRunning", "finish"}

\* C18: in a run that downloads from Immich, the images of the slideshow
\* are the files downloaded in this run, in download order, whatever the
\* output folder held before the run.
C18_SlideshowOfThisRunsDownloads ==
  (opts.inputDir = "" /\ SlideshowStarted) => images = Downloaded

\* C18: a run that downloaded two images makes its slideshow of three.
C18_Witness ==
  /\ opts.inputDir = ""
  /\ SlideshowStarted
  /\ Len(queue) = 2
  /\ Len(images) = 3

\* The run has ended after its success message.
Succeeded == pc = "exited" /\ "video created successfully" \in stdout

\* After a successful run no batch video of the run is left, the output
\* video exists, and the title and ending videos are still there.
C19_AfterSuccess ==
  Succeeded =>
    /\ \A b \in DOMAIN spawned : spawned[b].output \notin disk
    /\ OutputFile \in disk
    /\ opts.title => TitlePath \in disk
    /\ opts.ending => EndingPath \in disk

\* The cleanup step deletes batch videos of this run only.
C19_CleanupStep ==
  pc = "finish" =>
    (disk \ disk') \subseteq {spawned[b].output : b \in DOMAIN spawned}

\* C19: after a successful run, wherever the output folder and the output
\* video are, every batch video the run made is deleted or renamed, the
\* output video exists, and cleanup has deleted nothing the run did not
\* make.
C19_CleanupIsExact ==
  [](C19_AfterSuccess) /\ [][C19_CleanupStep]_vars

\* C19: a run whose output video lies outside the output folder has put
\* its batch and the title together and has ended with success.
C19_Witness ==
  /\ Succeeded
  /\ opts.videoDir = VidDir
  /\ concatList # <<>>

=============================================================================
